---- MODULE Spec2Model ----
(***************************************************************************)
(* Fragment reassembly engine of Lab5/ex1.py: longest_overlap,             *)
(* build_prefix_index, update_prefix_index and greedy_assemble_indexed.    *)
(*                                                                         *)
(* A Python str is a sequence of one-character strings; an Optional[str]   *)
(* list slot is a record [some, str], None being [some |-> FALSE].         *)
(* List positions are 0-based as in the source; a local holding None       *)
(* where the source holds an int is NoIndex.                               *)
(***************************************************************************)
EXTENDS Integers, Sequences, FiniteSets, TLC

VARIABLES
    reads_in,       \* argument of greedy_assemble_indexed: the caller's list
    k,              \* argument: index key length
    min_olap,       \* argument: minimum overlap
    reads,          \* local list of Optional[str] (line 74)
    idx,            \* local dict: k-prefix -> set of list positions (line 75)
    made_progress,  \* local flag of the while loop (lines 76-78, 107)
    it,             \* position of the enumerate iterator of line 79
    i,              \* loop variable of line 79 (last position visited)
    best_j,         \* local (lines 86, 97)
    best_ol,        \* local (lines 87, 96)
    old_i,          \* local (line 100)
    old_j,          \* local (line 101)
    merged,         \* local (line 102)
    pc,             \* control point
    result,         \* returned string (line 110)
    passes,         \* history: iterations of the while loop begun
    merges,         \* history: merges performed
    active0,        \* history: slots that were not None when the pass began
    call_a,         \* arguments and return value of a stand-alone call
    call_b,         \*   of longest_overlap
    call_m,
    call_ret,
    upd_idx,        \* arguments of a stand-alone call of update_prefix_index
    upd_i,
    upd_old,
    upd_new,
    upd_k,
    upd_out,        \* the dict idx when that call has returned
    bld_reads,      \* arguments and return value of a stand-alone call
    bld_k,          \*   of build_prefix_index
    bld_ret

vars == <<reads_in, k, min_olap, reads, idx, made_progress, it, i, best_j,
          best_ol, old_i, old_j, merged, pc, result, passes, merges, active0,
          call_a, call_b, call_m, call_ret,
          upd_idx, upd_i, upd_old, upd_new, upd_k, upd_out,
          bld_reads, bld_k, bld_ret>>

engine_vars == <<reads_in, k, min_olap, reads, idx, made_progress, it, i,
                 best_j, best_ol, old_i, old_j, merged, result, passes,
                 merges, active0>>

upd_vars == <<upd_idx, upd_i, upd_old, upd_new, upd_k, upd_out>>

bld_vars == <<bld_reads, bld_k, bld_ret>>

call_vars == <<call_a, call_b, call_m, call_ret, upd_vars, bld_vars>>

----------------------------------------------------------------------------
(* Bounds of the model *)

MaxReads == 3       \* most fragments in an input list
MaxReadLen == 2     \* longest input fragment
MaxTotalLen == 6    \* most characters in an input list
MaxK == 2           \* largest k (and min_olap) of an engine run
MaxCallLen == 3     \* longest argument of a stand-alone longest_overlap call
MaxCallMin == 3     \* largest min_olap of a stand-alone longest_overlap call
MaxScenarioReads == 2   \* most fragments in a list of scenario fragments
MaxScenarioK == 4       \* largest k of a run on scenario fragments
MaxUpdIds == 2      \* ids 0..MaxUpdIds-1 in a stand-alone update_prefix_index call
MaxUpdLen == 2      \* longest old / new string of such a call
MaxUpdK == 2        \* largest k of such a call
MaxBuildReads == 3  \* longest list of a stand-alone build_prefix_index call
MaxBuildLen == 2    \* longest string in that list
MaxBuildK == 2      \* largest k of such a call

Alphabet == {"A", "C"}

Strings(n) == UNION {[1..l -> Alphabet] : l \in 0..n}

----------------------------------------------------------------------------
(* Python values *)

None == [some |-> FALSE, str |-> <<>>]
Some(s) == [some |-> TRUE, str |-> s]
NoIndex == -1

\* truth value of an Optional[str]: None and "" are false
Truthy(r) == r.some /\ Len(r.str) > 0

Min(x, y) == IF x <= y THEN x ELSE y
Max(x, y) == IF x >= y THEN x ELSE y

SetMax(S) == CHOOSE x \in S : \A y \in S : y <= x
SetMin(S) == CHOOSE x \in S : \A y \in S : x <= y

\* s[start:]
SliceFrom(s, start) ==
    LET n == Len(s)
        st == IF start < 0 THEN Max(n + start, 0) ELSE Min(start, n)
    IN  SubSeq(s, st + 1, n)

\* s[:stop]
SliceTo(s, stop) ==
    LET n == Len(s)
        en == IF stop < 0 THEN Max(n + stop, 0) ELSE Min(stop, n)
    IN  SubSeq(s, 1, en)

----------------------------------------------------------------------------
(* longest_overlap, lines 43-50 *)

\* a plausible slip: the scan stops one length too late, range(max_olap,
\* min_olap - 2, -1)
ScanTooFarMutant(a, b, olen, min) ==
    LET hits == {o \in (min - 1)..olen :
                    SliceFrom(a, 0 - o) = SliceTo(b, o)}
    IN  IF hits = {} THEN 0 ELSE SetMax(hits)

\* a plausible slip: the scan stops one length too early, range(max_olap,
\* min_olap, -1)
ScanTooShortMutant(a, b, olen, min) ==
    LET hits == {o \in (min + 1)..olen :
                    SliceFrom(a, 0 - o) = SliceTo(b, o)}
    IN  IF hits = {} THEN 0 ELSE SetMax(hits)

RECURSIVE ScanDown(_, _, _, _)
\* the for loop of lines 47-49, olen running from its argument down to min
ScanDown(a, b, olen, min) ==
    IF olen < min THEN 0
    ELSE IF SliceFrom(a, 0 - olen) = SliceTo(b, olen) THEN olen
    ELSE ScanDown(a, b, olen - 1, min)

\* a plausible slip: the scan runs upward and returns the shortest overlap
ShortestOverlapMutant(a, b, min) ==
    LET max_olap == Min(Len(a), Len(b))
        hits == {olen \in min..max_olap :
                    SliceFrom(a, 0 - olen) = SliceTo(b, olen)}
    IN  IF hits = {} THEN 0 ELSE CHOOSE x \in hits : \A y \in hits : x <= y

longest_overlap(a, b, min) ==
    LET max_olap == Min(Len(a), Len(b))
    IN  IF SliceFrom(a, 0 - min) # SliceTo(b, min) THEN 0
        ELSE ScanDown(a, b, max_olap, min)

----------------------------------------------------------------------------
(* the prefix index, lines 52-71 *)

EmptyIndex == [p \in {} |-> {}]

\* idx.get(p, set())
Bucket(d, p) == IF p \in DOMAIN d THEN d[p] ELSE {}

\* a plausible slip: idx[p] = {f}, the bucket is replaced
OverwriteBucketMutant(d, p, f) ==
    [q \in (DOMAIN d) \cup {p} |-> IF q = p THEN {f} ELSE d[q]]

\* idx.setdefault(p, set()).add(f)
SetDefaultAdd(d, p, f) ==
    [q \in (DOMAIN d) \cup {p} |-> IF q = p THEN Bucket(d, p) \cup {f} ELSE d[q]]

RECURSIVE BuildUpTo(_, _, _)
\* the loop of lines 54-58 over list positions 0..n-1
BuildUpTo(rs, kk, n) ==
    IF n = 0 THEN EmptyIndex
    ELSE LET d == BuildUpTo(rs, kk, n - 1)
             r == rs[n - 1]
         IN  IF ~Truthy(r) \/ Len(r.str) < kk THEN d
             ELSE SetDefaultAdd(d, SliceTo(r.str, kk), n - 1)

build_prefix_index(rs, kk) == BuildUpTo(rs, kk, Cardinality(DOMAIN rs))

\* a plausible slip: the bucket of the old key is dropped without looking
\* whether f is in it
DropBucketMutant(d, f, old, kk) ==
    IF Truthy(old) /\ Len(old.str) >= kk
    THEN [q \in (DOMAIN d) \ {SliceTo(old.str, kk)} |-> d[q]]
    ELSE d

\* lines 62-68
RemoveOld(d, f, old, kk) ==
    IF Truthy(old) /\ Len(old.str) >= kk
    THEN LET p_old == SliceTo(old.str, kk)
             s == Bucket(d, p_old)
         IN  IF s # {} /\ f \in s
             THEN IF s \ {f} = {}
                  THEN [q \in (DOMAIN d) \ {p_old} |-> d[q]]
                  ELSE [d EXCEPT ![p_old] = s \ {f}]
             ELSE d
    ELSE d

\* lines 69-71
AddNew(d, f, new, kk) ==
    IF Truthy(new) /\ Len(new.str) >= kk
    THEN SetDefaultAdd(d, SliceTo(new.str, kk), f)
    ELSE d

\* a plausible slip: the old binding is never removed
NoRemovalMutant(d, f, old, new, kk) == AddNew(d, f, new, kk)

update_prefix_index(d, f, old, new, kk) ==
    AddNew(RemoveOld(d, f, old, kk), f, new, kk)

----------------------------------------------------------------------------
(* greedy_assemble_indexed, lines 73-110 *)

Ids == DOMAIN reads
NReads == Cardinality(DOMAIN reads_in)

\* a plausible slip: the slice starts one character late
OffByOneMutant(r, rj, ol) == r \o SliceFrom(rj, ol + 1)

\* a plausible slip: the overlap is not dropped from the partner
NoTrimMutant(r, rj, ol) == r \o rj

\* line 102: r + reads[best_j][best_ol:]
MergedSeq(r, rj, ol) == r \o SliceFrom(rj, ol)

\* a plausible slip: the partner is left in the list
RetireForgottenMutant(rs, a, j, m) == [rs EXCEPT ![a] = Some(m)]

\* a plausible slip: the two positions are exchanged
SwappedSlotsMutant(rs, a, j, m) == [rs EXCEPT ![j] = Some(m), ![a] = None]

\* lines 103-104: the two slot assignments of a merge
AbsorbAndRetire(rs, a, j, m) == [rs EXCEPT ![a] = Some(m), ![j] = None]

\* a plausible slip: a single pass, the flag is not consulted again
SinglePassMutant(progress) == progress /\ passes = 0

\* a plausible slip: the loop never sees the flag cleared
NeverStopMutant(progress) == TRUE

\* line 77: the condition of the while loop
LoopAgain(progress) == progress

\* a plausible slip: the test j == i of line 89 is missing
SelfCandidateMutant(pos) ==
    {j \in (IF SliceFrom(reads[pos].str, 0 - k) \in DOMAIN idx
            THEN idx[SliceFrom(reads[pos].str, 0 - k)] ELSE {}) :
        Truthy(reads[j])}

\* the candidates of lines 88-93 that reach line 94 when position pos is visited
Eligible(pos) ==
    {j \in Bucket(idx, SliceFrom(reads[pos].str, 0 - k)) :
        j # pos /\ Truthy(reads[j])}

\* line 94
Overlap(pos, j) == longest_overlap(reads[pos].str, reads[j].str, min_olap)

\* a plausible slip: the comparison of line 95 keeps the smaller overlap
SmallestOverlapMutant(pos) ==
    LET E == {j \in Bucket(idx, SliceFrom(reads[pos].str, 0 - k)) :
                 j # pos /\ Truthy(reads[j])}
    IN  IF E = {} THEN 0
        ELSE Max(0, SetMin({longest_overlap(reads[pos].str, reads[j].str,
                                            min_olap) : j \in E}))

\* best_ol after the loop of lines 88-97
BestOverlap(pos) ==
    IF Eligible(pos) = {} THEN 0
    ELSE Max(0, SetMax({Overlap(pos, j) : j \in Eligible(pos)}))

\* The values best_j can have after the loop of lines 88-97: the first
\* candidate, in the iteration order of the set, that reaches the largest
\* overlap.  The iteration order of a set is not fixed by the language, so
\* every candidate with the largest overlap is a possible outcome.
BestChoices(pos) ==
    LET best == CHOOSE ol \in {BestOverlap(pos)} : TRUE
    IN  IF best = 0 THEN {NoIndex}
        ELSE {j \in Eligible(pos) : Overlap(pos, j) = best}

ActiveIds == {f \in Ids : reads[f].some}
ActiveCount == Cardinality(ActiveIds)

RECURSIVE ContigsUpTo(_, _)
\* line 108: [r for r in reads if r], over list positions 0..n-1
ContigsUpTo(rs, n) ==
    IF n = 0 THEN <<>>
    ELSE IF Truthy(rs[n - 1])
         THEN Append(ContigsUpTo(rs, n - 1), rs[n - 1].str)
         ELSE ContigsUpTo(rs, n - 1)

\* x placed behind every element that is at least as long: equal keys keep
\* their order, as list.sort does, also with reverse=True
InsertDesc(sorted, x) ==
    LET ahead == {p \in 1..Len(sorted) : Len(sorted[p]) >= Len(x)}
        n == Cardinality(ahead)
    IN  SubSeq(sorted, 1, n) \o <<x>> \o SubSeq(sorted, n + 1, Len(sorted))

RECURSIVE SortUpTo(_, _)
SortUpTo(s, n) ==
    IF n = 0 THEN <<>> ELSE InsertDesc(SortUpTo(s, n - 1), s[n])

\* a plausible slip: reverse=True taken to reverse the order of equal keys
ReversedTiesMutant(s) ==
    LET u == [p \in 1..Len(s) |-> s[Len(s) + 1 - p]]
    IN  SortUpTo(u, Len(u))

\* line 109: contigs.sort(key=len, reverse=True)
SortByLenReverse(s) == SortUpTo(s, Len(s))

RECURSIVE JoinWithGapMutant(_)
\* a plausible slip: the contigs are joined with a gap character between them
JoinWithGapMutant(s) ==
    IF s = <<>> THEN <<>>
    ELSE IF Tail(s) = <<>> THEN Head(s)
    ELSE Head(s) \o <<"N">> \o JoinWithGapMutant(Tail(s))

RECURSIVE Join(_)
\* line 110: "".join(contigs)
Join(s) == IF s = <<>> THEN <<>> ELSE Head(s) \o Join(Tail(s))

RECURSIVE SumOver(_, _)
\* the sum of len[f] over the finite set S
SumOver(len, S) ==
    IF S = {} THEN 0
    ELSE LET f == CHOOSE x \in S : TRUE IN len[f] + SumOver(len, S \ {f})

\* the sum of the lengths of the input fragments
InputLength == SumOver([f \in DOMAIN reads_in |-> Len(reads_in[f])], DOMAIN reads_in)

----------------------------------------------------------------------------
(* Specification of an engine run *)

NoUpdate ==
    /\ upd_idx = <<>> /\ upd_i = 0 /\ upd_old = None /\ upd_new = None
    /\ upd_k = 0 /\ upd_out = <<>>

NoBuild == bld_reads = <<>> /\ bld_k = 0 /\ bld_ret = <<>>

NoCall ==
    /\ call_a = <<>> /\ call_b = <<>> /\ call_m = 0 /\ call_ret = 0
    /\ NoUpdate
    /\ NoBuild

\* the state at line 77, first arrival: lines 74-76 done
Init ==
    /\ \E n \in 0..MaxReads : reads_in \in [0..(n - 1) -> Strings(MaxReadLen)]
    /\ InputLength <= MaxTotalLen
    /\ k \in 1..MaxK
    /\ min_olap = k                 \* line 128: both are MIN_OVERLAP
    /\ reads = [f \in DOMAIN reads_in |-> Some(reads_in[f])]
    /\ idx = build_prefix_index(reads, k)
    /\ made_progress = TRUE
    /\ it = 0
    /\ i = NoIndex
    /\ best_j = NoIndex
    /\ best_ol = 0
    /\ old_i = None
    /\ old_j = None
    /\ merged = <<>>
    /\ pc = "while"
    /\ result = <<>>
    /\ passes = 0
    /\ merges = 0
    /\ active0 = 0
    /\ NoCall

\* lines 77-79: the loop condition holds, a pass begins
BeginPass ==
    /\ pc = "while"
    /\ LoopAgain(made_progress)
    /\ made_progress' = FALSE
    /\ it' = 0
    /\ pc' = "for"
    /\ passes' = passes + 1
    /\ active0' = ActiveCount
    /\ UNCHANGED <<reads_in, k, min_olap, reads, idx, i, best_j, best_ol,
                   old_i, old_j, merged, result, merges>>
    /\ UNCHANGED call_vars

\* lines 80-81: the slot is None, empty or shorter than k
VisitInactive ==
    /\ pc = "for"
    /\ it \in Ids
    /\ ~Truthy(reads[it]) \/ Len(reads[it].str) < k
    /\ i' = it
    /\ it' = it + 1
    /\ UNCHANGED <<reads_in, k, min_olap, reads, idx, made_progress, best_j,
                   best_ol, old_i, old_j, merged, pc, result, passes, merges,
                   active0>>
    /\ UNCHANGED call_vars

\* lines 82-85: no bucket for the suffix
VisitNoCandidates ==
    /\ pc = "for"
    /\ it \in Ids
    /\ Truthy(reads[it]) /\ Len(reads[it].str) >= k
    /\ Bucket(idx, SliceFrom(reads[it].str, 0 - k)) = {}
    /\ i' = it
    /\ it' = it + 1
    /\ UNCHANGED <<reads_in, k, min_olap, reads, idx, made_progress, best_j,
                   best_ol, old_i, old_j, merged, pc, result, passes, merges,
                   active0>>
    /\ UNCHANGED call_vars

\* lines 86-99: candidates, but none to merge with
VisitNoPartner ==
    /\ pc = "for"
    /\ it \in Ids
    /\ Truthy(reads[it]) /\ Len(reads[it].str) >= k
    /\ Bucket(idx, SliceFrom(reads[it].str, 0 - k)) # {}
    /\ \E ol \in {BestOverlap(it)} : \E bj \in BestChoices(it) :
          /\ bj = NoIndex \/ ol < min_olap
          /\ best_ol' = ol
          /\ best_j' = bj
    /\ i' = it
    /\ it' = it + 1
    /\ UNCHANGED <<reads_in, k, min_olap, reads, idx, made_progress, old_i,
                   old_j, merged, pc, result, passes, merges, active0>>
    /\ UNCHANGED call_vars

\* lines 86-107: position it absorbs best_j
VisitMerge ==
    /\ pc = "for"
    /\ it \in Ids
    /\ Truthy(reads[it]) /\ Len(reads[it].str) >= k
    /\ Bucket(idx, SliceFrom(reads[it].str, 0 - k)) # {}
    /\ \E ol \in {BestOverlap(it)} : \E bj \in BestChoices(it) :
          /\ ~(bj = NoIndex \/ ol < min_olap)
          /\ \E m \in {MergedSeq(reads[it].str, reads[bj].str, ol)} :
             \E d \in {update_prefix_index(idx, it, reads[it], Some(m), k)} :
                 /\ best_ol' = ol
                 /\ best_j' = bj
                 /\ old_i' = reads[it]
                 /\ old_j' = reads[bj]
                 /\ merged' = m
                 /\ reads' = AbsorbAndRetire(reads, it, bj, m)
                 /\ idx' = update_prefix_index(d, bj, reads[bj], None, k)
    /\ made_progress' = TRUE
    /\ merges' = merges + 1
    /\ i' = it
    /\ it' = it + 1
    /\ UNCHANGED <<reads_in, k, min_olap, pc, result, passes, active0>>
    /\ UNCHANGED call_vars

\* line 79: the enumeration is exhausted, back to line 77
EndPass ==
    /\ pc = "for"
    /\ it \notin Ids
    /\ pc' = "while"
    /\ UNCHANGED <<reads_in, k, min_olap, reads, idx, made_progress, it, i,
                   best_j, best_ol, old_i, old_j, merged, result, passes,
                   merges, active0>>
    /\ UNCHANGED call_vars

\* lines 77, 108-110: the loop condition fails, the contigs are returned
Finalize ==
    /\ pc = "while"
    /\ ~LoopAgain(made_progress)
    /\ \E contigs \in {ContigsUpTo(reads, Cardinality(Ids))} :
       \E sorted \in {SortByLenReverse(contigs)} :
           result' = Join(sorted)
    /\ pc' = "done"
    /\ UNCHANGED <<reads_in, k, min_olap, reads, idx, made_progress, it, i,
                   best_j, best_ol, old_i, old_j, merged, passes, merges,
                   active0>>
    /\ UNCHANGED call_vars

Next ==
    \/ BeginPass
    \/ VisitInactive
    \/ VisitNoCandidates
    \/ VisitNoPartner
    \/ VisitMerge
    \/ EndPass
    \/ Finalize

Spec == Init /\ [][Next]_vars

\* the run is one sequential computation: it takes its next step if it has one
FairSpec == Spec /\ WF_vars(Next)

----------------------------------------------------------------------------
(* Specification of the engine run on longer fragments over the alphabet *)
(* of line 117                                                           *)

\* the Python list [s[1], ..., s[n]], positions 0..n-1
ListOf(s) == [f \in 0..(Len(s) - 1) |-> s[f + 1]]

ACGTACG == <<"A", "C", "G", "T", "A", "C", "G">>
TACGTTT == <<"T", "A", "C", "G", "T", "T", "T">>
AAAA == <<"A", "A", "A", "A">>
GGGG == <<"G", "G", "G", "G">>
CCCC == <<"C", "C", "C", "C">>
ACGTACGTTT == <<"A", "C", "G", "T", "A", "C", "G", "T", "T", "T">>

ScenarioReads == {ACGTACG, TACGTTT, AAAA, GGGG, CCCC}

\* line 74 to the first test of line 77, called as in line 128
InitScenario ==
    /\ \E n \in 0..MaxScenarioReads :
          reads_in \in [0..(n - 1) -> ScenarioReads]
    /\ k \in 1..MaxScenarioK
    /\ min_olap = k
    /\ reads = [f \in DOMAIN reads_in |-> Some(reads_in[f])]
    /\ idx = build_prefix_index(reads, k)
    /\ made_progress = TRUE
    /\ it = 0
    /\ i = NoIndex
    /\ best_j = NoIndex
    /\ best_ol = 0
    /\ old_i = None
    /\ old_j = None
    /\ merged = <<>>
    /\ pc = "while"
    /\ result = <<>>
    /\ passes = 0
    /\ merges = 0
    /\ active0 = 0
    /\ NoCall

SpecScenario == InitScenario /\ [][Next]_vars

----------------------------------------------------------------------------
(* Specification of a stand-alone call of longest_overlap *)

EngineIdle ==
    /\ reads_in = <<>> /\ reads = <<>> /\ idx = EmptyIndex
    /\ k = 1 /\ min_olap = 1 /\ made_progress = FALSE
    /\ it = 0 /\ i = NoIndex /\ best_j = NoIndex /\ best_ol = 0
    /\ old_i = None /\ old_j = None /\ merged = <<>> /\ result = <<>>
    /\ passes = 0 /\ merges = 0 /\ active0 = 0

InitCall ==
    /\ EngineIdle
    /\ call_a \in Strings(MaxCallLen)
    /\ call_b \in Strings(MaxCallLen)
    /\ call_m \in 1..MaxCallMin
    /\ call_ret = 0
    /\ NoUpdate
    /\ NoBuild
    /\ pc = "call"

\* lines 43-50, entry to return
CallLongestOverlap ==
    /\ pc = "call"
    /\ call_ret' = longest_overlap(call_a, call_b, call_m)
    /\ pc' = "return"
    /\ UNCHANGED <<call_a, call_b, call_m>>
    /\ UNCHANGED upd_vars
    /\ UNCHANGED bld_vars
    /\ UNCHANGED engine_vars

NextCall == CallLongestOverlap

SpecCall == InitCall /\ [][NextCall]_vars

----------------------------------------------------------------------------
(* Specification of a stand-alone call of update_prefix_index *)

\* the values of an Optional[str] argument
OptStrings(n) == {None} \cup {Some(s) : s \in Strings(n)}

\* the dict that binds id f to the key owner[f], where owner[f] is a key
\* (a string of length kk) or "" for an id that is in no bucket
IndexOf(owner, kk) ==
    [p \in {owner[f] : f \in {g \in DOMAIN owner : Len(owner[g]) = kk}} |->
        {f \in DOMAIN owner : owner[f] = p}]

\* the dicts the engine can hold for a given k: the keys have length k, no
\* bucket is empty (line 67) and an id is in at most one bucket
Indexes(kk) ==
    {IndexOf(owner, kk) :
        owner \in [0..(MaxUpdIds - 1) -> [1..kk -> Alphabet] \cup {<<>>}]}

InitUpdate ==
    /\ EngineIdle
    /\ call_a = <<>> /\ call_b = <<>> /\ call_m = 0 /\ call_ret = 0
    /\ upd_k \in 1..MaxUpdK
    /\ upd_idx \in Indexes(upd_k)
    /\ upd_i \in 0..(MaxUpdIds - 1)
    /\ upd_old \in OptStrings(MaxUpdLen)
    /\ upd_new \in OptStrings(MaxUpdLen)
    /\ upd_out = <<>>
    /\ NoBuild
    /\ pc = "call"

\* lines 61-71, entry to return: the function has no raise and no assert
CallUpdatePrefixIndex ==
    /\ pc = "call"
    /\ upd_out' = update_prefix_index(upd_idx, upd_i, upd_old, upd_new, upd_k)
    /\ pc' = "return"
    /\ UNCHANGED <<upd_idx, upd_i, upd_old, upd_new, upd_k>>
    /\ UNCHANGED <<call_a, call_b, call_m, call_ret>>
    /\ UNCHANGED bld_vars
    /\ UNCHANGED engine_vars

NextUpdate == CallUpdatePrefixIndex

SpecUpdate == InitUpdate /\ [][NextUpdate]_vars

----------------------------------------------------------------------------
(* Specification of a stand-alone call of build_prefix_index *)

InitBuild ==
    /\ EngineIdle
    /\ call_a = <<>> /\ call_b = <<>> /\ call_m = 0 /\ call_ret = 0
    /\ NoUpdate
    /\ \E n \in 0..MaxBuildReads :
          bld_reads \in [0..(n - 1) -> OptStrings(MaxBuildLen)]
    /\ bld_k \in 1..MaxBuildK
    /\ bld_ret = <<>>
    /\ pc = "call"

\* lines 52-59, entry to return
CallBuildPrefixIndex ==
    /\ pc = "call"
    /\ bld_ret' = build_prefix_index(bld_reads, bld_k)
    /\ pc' = "return"
    /\ UNCHANGED <<bld_reads, bld_k>>
    /\ UNCHANGED <<call_a, call_b, call_m, call_ret>>
    /\ UNCHANGED upd_vars
    /\ UNCHANGED engine_vars

NextBuild == CallBuildPrefixIndex

SpecBuild == InitBuild /\ [][NextBuild]_vars

----------------------------------------------------------------------------
(* Vocabulary of the properties *)

\* the last n characters of s and the first n characters of s, 0 <= n <= Len(s)
Last(s, n) == SubSeq(s, Len(s) - n + 1, Len(s))
First(s, n) == SubSeq(s, 1, n)

\* the lengths L >= m at which a suffix of a equals a prefix of b
ValidOverlaps(a, b, m) ==
    {L \in m..Min(Len(a), Len(b)) : Last(a, L) = First(b, L)}

LargestOverlap(a, b, m) ==
    IF ValidOverlaps(a, b, m) = {} THEN 0 ELSE SetMax(ValidOverlaps(a, b, m))

Active(f) == reads[f].some
LongEnough(f) == Active(f) /\ Len(reads[f].str) >= k

Done == pc = "done"
MergedNow == merges' = merges + 1

----------------------------------------------------------------------------
(* C1: longest_overlap(A, B, m), m >= 1, returns the largest L with         *)
(* m <= L <= min(len(A), len(B)) whose length-L suffix of A equals the      *)
(* length-L prefix of B, and 0 exactly when there is no such L.             *)
C1_MatcherContract ==
    pc = "return" => call_ret = LargestOverlap(call_a, call_b, call_m)

(* C2: in every state between two visits, position f is in the bucket keyed *)
(* by p exactly when slot f is not None, is at least k long and starts with *)
(* p; buckets hold list positions only.                                     *)
C2_IndexLockstep ==
    /\ \A p \in DOMAIN idx : idx[p] \subseteq Ids
    /\ \A f \in Ids :
          \A p \in (DOMAIN idx) \cup {First(reads[g].str, k) : g \in {h \in Ids : LongEnough(h)}} :
              f \in Bucket(idx, p) <=> (LongEnough(f) /\ First(reads[f].str, k) = p)

C2_Witness ==
    /\ merges >= 1
    /\ \E f, g \in Ids :
          /\ ~Active(f) /\ Len(reads_in[f]) >= k
          /\ Active(g) /\ g \in Bucket(idx, First(reads_in[f], k))

(* C3: a merge of i absorbing j with overlap L gives i a sequence of length *)
(* len(i) + len(j) - L that starts with the old sequence of i and ends with *)
(* the old sequence of j from position L on.                                *)
C3_MergeCorrect ==
    [][MergedNow =>
        LET a == reads[i'].str
            b == reads[best_j'].str
            L == best_ol'
            m == reads'[i'].str
        IN  /\ reads'[i'].some
            /\ 0 <= L /\ L <= Len(b)
            /\ Len(m) = Len(a) + Len(b) - L
            /\ First(m, Len(a)) = a
            /\ Last(m, Len(b) - L) = SubSeq(b, L + 1, Len(b))]_vars

C3_Witness ==
    /\ merges >= 1
    /\ best_ol >= 1
    /\ best_ol < Len(old_j.str)
    /\ best_ol < Len(old_i.str)

(* C4: the run ends only after a complete pass without a merge, and then no *)
(* visit would merge: no slot that is long enough has another slot that is  *)
(* not None in the bucket of its k-suffix with a computed overlap >= k.     *)
C4_FixedPointOfScan ==
    Done =>
        /\ passes >= 1 /\ ~made_progress /\ it \notin Ids
        /\ ActiveCount = active0
        /\ \A f \in Ids : LongEnough(f) =>
              \A j \in Bucket(idx, Last(reads[f].str, k)) :
                  (j # f /\ Active(j)) =>
                      longest_overlap(reads[f].str, reads[j].str, min_olap) < k

C4_Witness == Done /\ passes = 3 /\ merges = 2

(* C5: at the end of the run no two distinct slots that are not None have a *)
(* suffix-prefix overlap of any length L with k <= L <= min of the lengths. *)
C5_NoOverlapLeft ==
    Done =>
        \A f, j \in ActiveIds :
            f # j => ValidOverlaps(reads[f].str, reads[j].str, k) = {}

(* C6 as stated: the run never begins more passes than it has fragments.    *)
C6_PassesAtMostN == passes <= NReads

(* C6: the run halts, and it begins at most max(N, 1) passes of its while   *)
(* loop, N being the number of input fragments.                             *)
C6_Termination ==
    /\ <>Done
    /\ [][passes' <= Max(NReads, 1)]_vars

C6_Witness == Done /\ NReads = 3 /\ passes = NReads

(* C7 as stated: the slots that are not None number N minus the merges done *)
(* so far, and a run performs at most N - 1 merges.                         *)
C7_AtMostNMinusOneMerges ==
    /\ ActiveCount = NReads - merges
    /\ merges <= NReads - 1

(* C7: every merge lowers the number of slots that are not None by exactly  *)
(* one and no other step changes it; during a pass the number is at most    *)
(* what it was when the pass began, and below it once the pass has merged;  *)
(* a run of N >= 1 fragments performs at most N - 1 merges, a run of none   *)
(* performs none.                                                           *)
C7_MonotonicShrinkage ==
    [][/\ MergedNow => ActiveCount' = ActiveCount - 1
       /\ ~MergedNow => (ActiveCount' = ActiveCount /\ merges' = merges)
       /\ pc' # "done" =>
             /\ ActiveCount' <= active0'
             /\ made_progress' <=> ActiveCount' < active0'
       /\ merges' <= Max(NReads - 1, 0)]_vars

C7_Witness ==
    /\ pc = "while" /\ passes = 2 /\ made_progress
    /\ merges = 2 /\ ActiveCount = 1 /\ active0 = 2

(* C8: a slot that is None stays None; a slot becomes None only in a merge, *)
(* as the partner best_j of another position i; the absorber and the        *)
(* partner of a merge are both not None before it; slots are never added or *)
(* removed; and the absorber is not None after it.                          *)
C8_RetirementPermanent ==
    [][/\ DOMAIN reads' = DOMAIN reads
       /\ \A f \in Ids :
             /\ ~reads[f].some => reads'[f] = reads[f]
             /\ (reads[f].some /\ ~reads'[f].some) =>
                   (MergedNow /\ best_j' = f /\ i' # f /\ reads'[i'].some)
       /\ MergedNow =>
             /\ i' \in Ids /\ best_j' \in Ids /\ best_j' # i'
             /\ reads[i'].some /\ reads[best_j'].some]_vars

C8_Witness ==
    /\ pc = "for" /\ passes >= 2
    /\ i \in Ids /\ ~Active(i)
    /\ Len(reads_in[i]) >= k
    /\ merges >= 2

\* f comes before g in the returned string
Before(f, g) ==
    \/ Len(reads[f].str) > Len(reads[g].str)
    \/ Len(reads[f].str) = Len(reads[g].str) /\ f < g

\* the position in the returned string at which slot f begins, less one
Offset(f) ==
    SumOver([g \in Ids |-> Len(reads[g].str)], {g \in ActiveIds : Before(g, f)})

(* C9: the returned string is made of the sequences of the slots that are   *)
(* not None at the end, each once, in the order of descending length and,   *)
(* among equal lengths, ascending position.                                 *)
C9_Finalizer ==
    Done =>
        /\ Len(result) = SumOver([g \in Ids |-> Len(reads[g].str)], ActiveIds)
        /\ \A f \in ActiveIds :
              SubSeq(result, Offset(f) + 1, Offset(f) + Len(reads[f].str))
                  = reads[f].str

C9_Witness ==
    /\ Done
    /\ \E f, g, h \in ActiveIds :
          /\ f < g /\ g < h
          /\ Len(reads[f].str) = Len(reads[g].str)
          /\ Len(reads[f].str) >= 1
          /\ reads[f].str # reads[g].str
          /\ Len(reads[h].str) > Len(reads[g].str)

(* C10: the returned string is at most as long as the input fragments       *)
(* together, and exactly as long if and only if the run merged nothing.     *)
C10_LengthBound ==
    Done =>
        /\ Len(result) <= InputLength
        /\ Len(result) = InputLength <=> merges = 0

C10_Witness == Done /\ merges >= 1 /\ Len(result) < InputLength /\ NReads = 3

\* the characters of the string s
Chars(s) == {s[p] : p \in 1..Len(s)}

\* the characters that occur in the input fragments
InputChars == UNION {Chars(reads_in[f]) : f \in DOMAIN reads_in}

(* C11: in every state the sequence of every slot that is not None, and the *)
(* returned string, contain only characters that occur in the input         *)
(* fragments.                                                               *)
C11_AlphabetPreserved ==
    /\ \A f \in ActiveIds : Chars(reads[f].str) \subseteq InputChars
    /\ Chars(merged) \subseteq InputChars
    /\ Chars(result) \subseteq InputChars

C11_Witness ==
    /\ Done /\ merges >= 1 /\ ActiveCount >= 2
    /\ InputChars = {"C"}
    /\ Len(result) >= 3

\* the engine was called with the list fragments and k = min_olap = kk
CalledWith(fragments, kk) ==
    reads_in = ListOf(fragments) /\ k = kk /\ min_olap = kk

\* the one merge of the run so far was: a absorbs b with overlap ol, giving m
OnlyMerge(a, b, ol, m) ==
    /\ old_i = Some(a) /\ old_j = Some(b)
    /\ longest_overlap(a, b, min_olap) = ol
    /\ Len(a) + Len(b) - Len(merged) = ol
    /\ merged = m

(* C12: on ["ACGTACG", "TACGTTT"] with k = min_olap = 4 the run never merges *)
(* more than once; its merge is fragment 0 absorbing fragment 1 with        *)
(* computed overlap 4; it ends after exactly one merge with exactly one     *)
(* Active fragment and returns "ACGTACGTTT".                                *)
C12_Scenario1 ==
    CalledWith(<<ACGTACG, TACGTTT>>, 4) =>
        /\ merges <= 1
        /\ merges = 1 =>
              /\ OnlyMerge(ACGTACG, TACGTTT, 4, ACGTACGTTT)
              /\ reads[0] = Some(ACGTACGTTT) /\ reads[1] = None
        /\ Done => merges = 1 /\ ActiveCount = 1 /\ result = ACGTACGTTT

C12_Witness ==
    CalledWith(<<ACGTACG, TACGTTT>>, 4) /\ Done /\ result = ACGTACGTTT

(* C13: on ["AAAA", "AAAA"] with k = min_olap = 4 the run never merges more *)
(* than once (so the survivor is never merged with itself); its merge has   *)
(* overlap 4 and leaves the absorbing fragment's sequence unchanged; it     *)
(* ends after exactly one merge with exactly one Active fragment and        *)
(* returns "AAAA".                                                          *)
C13_Scenario2 ==
    CalledWith(<<AAAA, AAAA>>, 4) =>
        /\ merges <= 1
        /\ merges = 1 =>
              /\ OnlyMerge(AAAA, AAAA, 4, AAAA)
              /\ merged = old_i.str
              /\ ActiveCount = 1
              /\ \A f \in ActiveIds : reads[f] = Some(AAAA)
        /\ Done => merges = 1 /\ ActiveCount = 1 /\ result = AAAA

C13_Witness ==
    /\ CalledWith(<<AAAA, AAAA>>, 4) /\ Done /\ result = AAAA
    /\ passes = 2 /\ merged = old_i.str

(* C14: on ["GGGG", "CCCC"] with k = min_olap = 4 the run never merges, ends *)
(* after exactly one pass with both fragments Active, and returns the        *)
(* concatenation of the two contigs, which is neither fragment.              *)
C14_Scenario3 ==
    CalledWith(<<GGGG, CCCC>>, 4) =>
        /\ merges = 0
        /\ passes <= 1
        /\ ActiveIds = {0, 1}
        /\ reads[0] = Some(GGGG) /\ reads[1] = Some(CCCC)
        /\ Done =>
              /\ passes = 1
              /\ result = GGGG \o CCCC
              /\ result \notin {GGGG, CCCC}

C14_Witness ==
    CalledWith(<<GGGG, CCCC>>, 4) /\ Done /\ ActiveCount = 2 /\ Len(result) = 8

\* the threshold is non-positive or exceeds the length of the shortest fragment
BadThreshold ==
    \/ min_olap <= 0
    \/ \E f \in DOMAIN reads_in : min_olap > Len(reads_in[f])

(* C15: when the minimum overlap threshold is non-positive or exceeds the  *)
(* length of the shortest input fragment, the run performs no merge and    *)
(* never returns an assembled sequence.                                    *)
C15_ConfigurationError == BadThreshold => merges = 0 /\ ~Done

\* the stand-alone call of update_prefix_index removes a binding that does
\* not exist: old has a key, and id upd_i is not in the bucket of that key
MalformedUpdate ==
    /\ upd_old.some /\ Len(upd_old.str) >= upd_k
    /\ upd_i \notin Bucket(upd_idx, First(upd_old.str, upd_k))

\* the new value has a key
HasKey(new, kk) == new.some /\ Len(new.str) >= kk /\ Len(new.str) > 0

FixedEligible(rs, d, pos) ==
    {j \in Bucket(d, SliceFrom(rs[pos].str, 0 - k)) :
        j # pos /\ Truthy(rs[j])}

FixedOverlap(rs, pos, j) == longest_overlap(rs[pos].str, rs[j].str, min_olap)

FixedBest(rs, d, pos) ==
    IF FixedEligible(rs, d, pos) = {} THEN 0
    ELSE Max(0, SetMax({FixedOverlap(rs, pos, j) :
                            j \in FixedEligible(rs, d, pos)}))

\* the visit of position pos, from the state st = [rs, d, progress]
FixedVisit(st, pos) ==
    IF ~Truthy(st.rs[pos]) \/ Len(st.rs[pos].str) < k THEN st
    ELSE LET ol == FixedBest(st.rs, st.d, pos)
         IN  IF ol = 0 \/ ol < min_olap THEN st
             ELSE LET j == SetMin({c \in FixedEligible(st.rs, st.d, pos) :
                                     FixedOverlap(st.rs, pos, c) = ol})
                      m == MergedSeq(st.rs[pos].str, st.rs[j].str, ol)
                      d1 == update_prefix_index(st.d, pos, st.rs[pos],
                                                Some(m), k)
                  IN  [rs |-> AbsorbAndRetire(st.rs, pos, j, m),
                       d |-> update_prefix_index(d1, j, st.rs[j], None, k),
                       progress |-> TRUE]

RECURSIVE FixedPass(_, _)
FixedPass(st, pos) ==
    IF pos \notin DOMAIN st.rs THEN st
    ELSE FixedPass(FixedVisit(st, pos), pos + 1)

RECURSIVE FixedLoop(_)
FixedLoop(st) ==
    IF ~st.progress THEN st
    ELSE FixedLoop(FixedPass([st EXCEPT !.progress = FALSE], 0))

FixedFinal ==
    LET rs0 == [f \in DOMAIN reads_in |-> Some(reads_in[f])]
    IN  FixedLoop([rs |-> rs0, d |-> build_prefix_index(rs0, k),
                   progress |-> TRUE])

FixedResult ==
    Join(SortByLenReverse(ContigsUpTo(FixedFinal.rs,
                                      Cardinality(DOMAIN reads_in))))

FixedActiveCount ==
    Cardinality({f \in DOMAIN reads_in : FixedFinal.rs[f].some})

Computed(a, b) == longest_overlap(a, b, min_olap)

\* the candidates of position a: the other positions that are Active and in
\* the bucket keyed by the k-suffix of a
Candidates(a) ==
    {c \in Ids \ {a} :
        Active(c) /\ c \in Bucket(idx, Last(reads[a].str, k))}

(* C18: whenever position i merges during its visit, the overlap used is the *)
(* computed overlap of i with the chosen partner best_j, it is at least the  *)
(* computed overlap of i with every candidate, and it is at least min_olap.  *)
C18_BestCandidate ==
    [][MergedNow =>
        LET a == i'
            j == best_j'
        IN  /\ j \in Candidates(a)
            /\ best_ol' = Computed(reads[a].str, reads[j].str)
            /\ \A c \in Candidates(a) :
                  Computed(reads[a].str, reads[c].str) <= best_ol'
            /\ best_ol' >= min_olap]_vars

\* the last step was a merge, and a candidate with a smaller positive
\* computed overlap was passed over
C18_Witness ==
    /\ merges >= 1 /\ pc = "for" /\ it = i + 1
    /\ best_j \in Ids /\ reads[i] = Some(merged) /\ reads[best_j] = None
    /\ \E c \in ActiveIds \ {i} :
          /\ c \in Bucket(idx, Last(old_i.str, k))
          /\ Computed(old_i.str, reads[c].str) > 0
          /\ Computed(old_i.str, reads[c].str) < best_ol

\* the k-suffix of s equals its own k-prefix
SelfOverlapping(s) == Len(s) >= k /\ Last(s, k) = First(s, k)

(* C19: in every merge the absorbed position best_j differs from the        *)
(* absorbing position i, is Active when the merge happens and has length    *)
(* >= k; so no fragment is merged with itself, also not one whose k-suffix  *)
(* equals its own k-prefix.                                                 *)
C19_PartnerEligible ==
    [][MergedNow =>
        /\ best_j' # i'
        /\ best_j' \in Ids
        /\ Active(best_j')
        /\ Len(reads[best_j'].str) >= k
        /\ Active(i') /\ reads'[i'].some /\ ~reads'[best_j'].some]_vars

\* a fragment whose k-suffix equals its own k-prefix has just absorbed
\* another one
C19_Witness ==
    /\ merges >= 1 /\ pc = "for" /\ it = i + 1
    /\ best_j \in Ids /\ best_j # i
    /\ reads[i] = Some(merged) /\ reads[best_j] = None
    /\ SelfOverlapping(old_i.str)
    /\ i \in Bucket(idx, Last(merged, k))

(* C20: immediately after position i absorbs position j, slot i is not None, *)
(* its sequence is not shorter than before the merge, and it is strictly     *)
(* longer unless the overlap equals the full length of j.                    *)
C20_AbsorberSurvives ==
    [][MergedNow =>
        LET before == Len(reads[i'].str)
            after == Len(reads'[i'].str)
        IN  /\ reads'[i'].some
            /\ after >= before
            /\ best_ol' # Len(reads[best_j'].str) => after > before]_vars

\* the last step was a merge with an overlap of the partner's full length:
\* the absorber is still there, with the sequence it had
C20_Witness ==
    /\ merges >= 1 /\ pc = "for" /\ it = i + 1
    /\ best_j \in Ids /\ reads[best_j] = None
    /\ best_ol = Len(old_j.str)
    /\ reads[i] = old_i /\ old_i.some /\ merged = old_i.str

(* C21: a merge of i absorbing j gives slot i a new sequence, sets slot j to *)
(* None and leaves every other slot as it was; no other step changes a slot; *)
(* the list keeps the length of the input list, and the caller's list        *)
(* reads_in is never changed.                                                *)
C21_MergeFrame ==
    [][/\ reads_in' = reads_in
       /\ DOMAIN reads' = DOMAIN reads_in
       /\ Cardinality(DOMAIN reads') = NReads
       /\ MergedNow =>
             /\ reads'[i'] = Some(merged')
             /\ reads'[best_j'] = None
             /\ \A f \in Ids \ {i', best_j'} : reads'[f] = reads[f]
       /\ ~MergedNow => reads' = reads]_vars

\* the last step was a merge in a list of three, and the third slot still
\* holds its input fragment
C21_Witness ==
    /\ merges >= 1 /\ pc = "for" /\ it = i + 1
    /\ best_j \in Ids /\ reads[i] = Some(merged) /\ reads[best_j] = None
    /\ NReads = 3
    /\ \E f \in Ids \ {i, best_j} :
          reads[f] = Some(reads_in[f]) /\ Len(reads_in[f]) >= k

\* the key of an Optional[str] argument of the stand-alone call, when it has one
OldKey == First(upd_old.str, upd_k)
NewKey == First(upd_new.str, upd_k)

\* what the call does to the membership of id f in the bucket keyed by p
RebindMembership(f, p) ==
    f \in Bucket(upd_out, p) <=>
        IF f # upd_i THEN f \in Bucket(upd_idx, p)
        ELSE \/ HasKey(upd_new, upd_k) /\ p = NewKey
             \/ /\ f \in Bucket(upd_idx, p)
                /\ ~(HasKey(upd_old, upd_k) /\ p = OldKey)

RebindEffect ==
    \A p \in DOMAIN upd_idx \cup DOMAIN upd_out :
        \A f \in 0..(MaxUpdIds - 1) : RebindMembership(f, p)

InNoBucket(d, f) == \A p \in DOMAIN d : f \notin d[p]

\* before the call, id upd_i is in no bucket other than the one keyed by old[:k]
BoundOnlyAsOld ==
    \A p \in DOMAIN upd_idx :
        upd_i \in upd_idx[p] => HasKey(upd_old, upd_k) /\ p = OldKey

(* C22 as stated: update_prefix_index(idx, i, old, new, k) removes i from   *)
(* the bucket keyed by old[:k] when old is given with len(old) >= k, then   *)
(* adds i to the bucket keyed by new[:k] when new is given with             *)
(* len(new) >= k; the membership of every other id in every bucket is       *)
(* unchanged; and with new = None the id i ends in no bucket.               *)
C22_RebindEffect ==
    pc = "return" =>
        /\ RebindEffect
        /\ upd_new = None => InNoBucket(upd_out, upd_i)

(* C22 as amended: the same, but with new = None the id i ends in no bucket *)
(* provided that before the call it was in no bucket other than the one     *)
(* keyed by old[:k].                                                        *)
C22_RebindEffectBound ==
    pc = "return" =>
        /\ RebindEffect
        /\ upd_new = None /\ BoundOnlyAsOld => InNoBucket(upd_out, upd_i)

\* a call that moved i out of a bucket it shared with another id into the
\* bucket of a different key
C22_Witness ==
    /\ pc = "return"
    /\ HasKey(upd_old, upd_k) /\ HasKey(upd_new, upd_k) /\ OldKey # NewKey
    /\ upd_i \in Bucket(upd_idx, OldKey)
    /\ Bucket(upd_idx, OldKey) # {upd_i}
    /\ upd_i \in Bucket(upd_out, NewKey)
    /\ upd_i \notin Bucket(upd_out, OldKey)

\* the positions of the list of the stand-alone build_prefix_index call that
\* hold a non-empty string of length >= k
Indexed ==
    {f \in DOMAIN bld_reads :
        /\ bld_reads[f].some
        /\ Len(bld_reads[f].str) > 0
        /\ Len(bld_reads[f].str) >= bld_k}

(* C23: build_prefix_index(reads, k) returns a mapping whose keys are        *)
(* exactly the k-length prefixes of the non-empty fragments of length >= k,  *)
(* each key mapped to exactly the set of list positions of the fragments     *)
(* with that prefix; a fragment shorter than k, a None and an empty entry    *)
(* are in no bucket.                                                         *)
C23_BuildContract ==
    pc = "return" =>
        /\ DOMAIN bld_ret = {First(bld_reads[f].str, bld_k) : f \in Indexed}
        /\ \A p \in DOMAIN bld_ret :
              bld_ret[p] = {f \in Indexed : First(bld_reads[f].str, bld_k) = p}
        /\ \A f \in (DOMAIN bld_reads) \ Indexed : InNoBucket(bld_ret, f)

\* a list with a None entry and two fragments that share a bucket
C23_Witness ==
    /\ pc = "return"
    /\ \E f \in DOMAIN bld_reads : bld_reads[f] = None
    /\ \E p \in DOMAIN bld_ret : Cardinality(bld_ret[p]) >= 2

\* the input fragments shorter than k
ShortIds == {f \in DOMAIN reads_in : Len(reads_in[f]) < k}

\* the sequence of slot f is the piece of the returned string that starts
\* behind the pieces sorted before it
PieceOfResult(f) ==
    SubSeq(result, Offset(f) + 1, Offset(f) + Len(reads[f].str)) = reads[f].str

(* C24: an input fragment shorter than k is never the absorber and never the *)
(* partner of a merge; its slot holds its original sequence after every step *)
(* of the run, and that sequence is one of the pieces of the returned string. *)
C24_ShortFragmentsInert ==
    [][\A f \in ShortIds :
          /\ MergedNow => f # i' /\ f # best_j'
          /\ reads'[f] = Some(reads_in[f])
          /\ Done' => PieceOfResult(f)']_vars

\* a run that merged and returned, with a non-empty fragment shorter than k
\* behind a longer piece of the output
C24_Witness ==
    /\ Done /\ merges >= 1
    /\ \E f \in ShortIds :
          /\ Len(reads_in[f]) >= 1
          /\ reads[f] = Some(reads_in[f])
          /\ PieceOfResult(f)
          /\ Offset(f) >= 1

\* the positions whose current sequence has the k-prefix p
StartsWith(p) == {j \in Ids : LongEnough(j) /\ First(reads[j].str, k) = p}

\* the pass is at the visit of a position that is long enough to look up
AtLookup == pc = "for" /\ it \in Ids /\ LongEnough(it)

(* C25: within a pass the positions are visited once each in ascending      *)
(* order; the lookup of a visit returns exactly the positions whose current *)
(* sequence (after the merges made earlier in the pass) starts with the     *)
(* visited fragment's k-suffix, so never a slot that is None; a slot that   *)
(* is None is skipped at its turn; and a merge matches and appends the      *)
(* partner's current sequence.                                              *)
C25_InPassVisibility ==
    [][/\ pc = "while" /\ pc' = "for" => it' = 0
       /\ pc = "for" /\ pc' = "for" => it \in Ids /\ i' = it /\ it' = it + 1
       /\ pc = "for" /\ pc' # "for" => it = NReads
       /\ AtLookup => Bucket(idx, Last(reads[it].str, k))
                          = StartsWith(Last(reads[it].str, k))
       /\ pc = "for" /\ it \in Ids /\ ~Active(it) =>
             ~MergedNow /\ reads' = reads /\ idx' = idx
       /\ MergedNow =>
             /\ Active(best_j')
             /\ best_ol' = Computed(reads[i'].str, reads[best_j'].str)
             /\ merged' = reads[i'].str \o
                   SubSeq(reads[best_j'].str, best_ol' + 1,
                          Len(reads[best_j'].str))]_vars

\* the second merge of the first pass absorbs a fragment that was lengthened
\* by the first merge of that pass
C25_Witness ==
    /\ passes = 1 /\ merges = 2 /\ pc = "for" /\ it = i + 1
    /\ best_j \in Ids /\ best_j < i
    /\ old_j.some /\ old_j # Some(reads_in[best_j])
    /\ reads[i] = Some(merged)

(* C26: for all A, B and m >= 1 the value L returned by                     *)
(* longest_overlap(A, B, m) is 0, or m <= L <= min(len(A), len(B)) and the  *)
(* last L characters of A are the first L characters of B; it is 0 whenever *)
(* len(A) < m or len(B) < m; and a second call on the same arguments gives  *)
(* the value the first call returned.                                       *)
C26_MatcherSound ==
    pc = "return" =>
        /\ \/ call_ret = 0
           \/ /\ call_m <= call_ret
              /\ call_ret <= Min(Len(call_a), Len(call_b))
              /\ Last(call_a, call_ret) = First(call_b, call_ret)
        /\ Len(call_a) < call_m \/ Len(call_b) < call_m => call_ret = 0
        /\ longest_overlap(call_a, call_b, call_m) = call_ret

\* a call that returned an overlap shorter than both arguments
C26_Witness ==
    /\ pc = "return"
    /\ call_ret >= call_m /\ call_ret >= 2
    /\ call_ret < Len(call_a) /\ call_ret < Len(call_b)

(* C27: with k = min_olap >= 1, for every Active position i of length >= k  *)
(* and every other Active position j in the bucket keyed by the k-suffix of *)
(* i, the computed overlap of i with j is at least k; and the visit of a    *)
(* position merges exactly when the position is Active, of length >= k, and *)
(* that bucket holds an Active position other than it.                      *)
C27_LookupSuffices ==
    [][/\ \A a \in Ids :
             LongEnough(a) =>
                 \A j \in Candidates(a) :
                     Computed(reads[a].str, reads[j].str) >= k
       /\ pc = "for" /\ it \in Ids =>
             (MergedNow <=> LongEnough(it) /\ Candidates(it) # {})]_vars

\* the last step merged with an overlap of exactly k, shorter than the partner
C27_Witness ==
    /\ merges >= 1 /\ pc = "for" /\ it = i + 1
    /\ best_j \in Ids /\ reads[i] = Some(merged) /\ reads[best_j] = None
    /\ min_olap = k /\ best_ol = k /\ Len(old_j.str) > k /\ Len(old_i.str) > k

\* s occurs in t as a contiguous substring
IsSubstring(s, t) ==
    \E o \in 0..(Len(t) - Len(s)) : SubSeq(t, o + 1, o + Len(s)) = s

(* C28: in every state every non-empty input fragment is a contiguous       *)
(* substring of the sequence of some slot that is not None, and it is a     *)
(* substring of the returned string.                                        *)
C28_NoMaterialLost ==
    \A f \in DOMAIN reads_in :
        Len(reads_in[f]) > 0 =>
            /\ \E g \in ActiveIds : IsSubstring(reads_in[f], reads[g].str)
            /\ Done => IsSubstring(reads_in[f], result)

\* a run has returned, and an input fragment that was absorbed lies strictly
\* inside a longer sequence
C28_Witness ==
    /\ Done /\ merges >= 2
    /\ \E f \in DOMAIN reads_in :
          /\ ~Active(f) /\ Len(reads_in[f]) >= 2
          /\ \E g \in ActiveIds :
                /\ IsSubstring(reads_in[f], reads[g].str)
                /\ First(reads[g].str, Len(reads_in[f])) # reads_in[f]
                /\ Last(reads[g].str, Len(reads_in[f])) # reads_in[f]

(* C29: the first k characters of a slot that is not None and at least k    *)
(* long never change: a merge only appends to the absorber, so the key of   *)
(* the absorber's bucket is the same before and after the merge, and the    *)
(* first update_prefix_index call of a merge (line 105) returns with the    *)
(* index equal to what it was before the call.                              *)
C29_PrefixStable ==
    [][/\ \A f \in Ids :
             LongEnough(f) /\ reads'[f].some =>
                 First(reads'[f].str, k) = First(reads[f].str, k)
       /\ MergedNow =>
             /\ First(merged', Len(reads[i'].str)) = reads[i'].str
             /\ First(merged', k) = First(reads[i'].str, k)
             /\ update_prefix_index(idx, i', reads[i'], Some(merged'), k)
                    = idx]_vars

\* the last step was a merge that lengthened an absorber whose bucket holds
\* another position as well
C29_Witness ==
    /\ merges >= 1 /\ pc = "for" /\ it = i + 1
    /\ best_j \in Ids /\ reads[i] = Some(merged) /\ reads[best_j] = None
    /\ Len(merged) > Len(old_i.str)
    /\ i \in Bucket(idx, First(merged, k))
    /\ Cardinality(Bucket(idx, First(merged, k))) >= 2

====
